---- MODULE Spec2Model ----
(***************************************************************************)
(* ConvLSTMLayer (tensorlayer/layers/recurrent/lstm_layers.py): the        *)
(* construction of the layer unrolls a convolutional LSTM cell over        *)
(* n_steps time steps inside one variable scope, threads the state,        *)
(* collects the per-step outputs and shapes them.                          *)
(*                                                                         *)
(* Tensors are records [shape, dtype, data] with data the row-major flat   *)
(* sequence of the elements.  Real arithmetic is abstracted to the ring    *)
(* of integers modulo Modulus.  The input's static shape is known except   *)
(* where ndims says otherwise, and its spatial and channel dimensions are  *)
(* those of the cell.  The graph's variable store holds one parameter set  *)
(* per scope name; the flag of the enclosing variable scope is an input.   *)
(*                                                                         *)
(* DeConv1dLayer, DeConv2dLayer, DeConv3dLayer                             *)
(* (tensorlayer/layers/convolution/expert_deconv.py): __init__, build and  *)
(* forward of one layer, the three classes differing in the number of      *)
(* spatial axes.  b_init and act are None or an object, whose truth value  *)
(* is that of Python; outputs_shape is the shape the transposed            *)
(* convolution computes for the input the layer is called with, and the    *)
(* dilation rates are 1.                                                   *)
(***************************************************************************)
EXTENDS Integers, Sequences, FiniteSets, TLC

(* ---- bounds of the model ---- *)
MaxBatch == 2
MaxSteps == 2
MaxSide == 2
MaxFeat == 2
Modulus == 3

(* ---- tensors ---- *)
RECURSIVE ProdTo(_, _)
ProdTo(s, n) == IF n = 0 THEN 1 ELSE s[n] * ProdTo(s, n - 1)

Prod(s) == ProdTo(s, Len(s))

RECURSIVE SumTo(_, _)
SumTo(s, n) == IF n = 0 THEN 0 ELSE s[n] + SumTo(s, n - 1)

SumSeq(s) == SumTo(s, Len(s))

\* a function over 1..n as an explicit tuple
Flat(f) == f \o << >>

Tensor(shape, dtype, data) == [shape |-> shape, dtype |-> dtype, data |-> Flat(data)]

NoTensor == Tensor(<< >>, "none", << >>)

NoneState == [h |-> NoTensor, c |-> NoTensor]

DTypes == {"float32", "float64"}

\* element [b, i, j, k] (zero-based) of a rank-4 tensor
At4(x, b, i, j, k) ==
    x.data[((b * x.shape[2] + i) * x.shape[3] + j) * x.shape[4] + k + 1]

\* element [b, t, i, j, k] (zero-based) of a rank-5 tensor
At5(x, b, t, i, j, k) ==
    x.data[(((b * x.shape[2] + t) * x.shape[3] + i) * x.shape[4] + j) * x.shape[5] + k + 1]

\* element [r, n] (zero-based) of a rank-2 tensor
At2(x, r, n) == x.data[r * x.shape[2] + n + 1]

\* inputs[:, time_step, :, :, :] of a rank-5 tensor
StepSlice(x, t) ==
    LET inner == x.shape[3] * x.shape[4] * x.shape[5]
    IN  Tensor(<<x.shape[1], x.shape[3], x.shape[4], x.shape[5]>>, x.dtype,
               [n \in 1..(x.shape[1] * inner) |->
                   x.data[(((n - 1) \div inner) * x.shape[2] + t) * inner
                          + ((n - 1) % inner) + 1]])

\* faulty variant: the steps are concatenated in decreasing order
ConcatAxis1Reversed(outs) ==
    LET s == outs[1].shape
        inner == s[2] * s[3] * s[4]
        row == Len(outs) * inner
    IN  Tensor(<<s[1], Len(outs) * s[2], s[3], s[4]>>, outs[1].dtype,
               [n \in 1..(s[1] * row) |->
                   outs[Len(outs) - (((n - 1) % row) \div inner)]
                       .data[((n - 1) \div row) * inner + (((n - 1) % row) % inner) + 1]])

\* tf.concat(outs, 1) of equally shaped rank-4 tensors
ConcatAxis1(outs) ==
    LET s == outs[1].shape
        inner == s[2] * s[3] * s[4]
        row == Len(outs) * inner
    IN  Tensor(<<s[1], Len(outs) * s[2], s[3], s[4]>>, outs[1].dtype,
               [n \in 1..(s[1] * row) |->
                   outs[(((n - 1) % row) \div inner) + 1]
                       .data[((n - 1) \div row) * inner + (((n - 1) % row) % inner) + 1]])

\* tf.reshape(x, [-1] \o rest): the flat data is kept, the leading dimension is inferred
Reshape(x, rest) ==
    Tensor(<<Prod(x.shape) \div Prod(rest)>> \o rest, x.dtype, x.data)

(* ---- the cell (BasicConvLSTMCell): one recurrence step ---- *)
cell_fn(shape, filter_size, num_features) ==
    [shape |-> shape, filter_size |-> filter_size, num_features |-> num_features]

NoCell == cell_fn(<< >>, << >>, 0)

Zeros(shape, dtype) == Tensor(shape, dtype, [n \in 1..Prod(shape) |-> 0])

zero_state(c, batch, dtype) ==
    LET z == Zeros(<<batch, c.shape[1], c.shape[2], c.num_features>>, dtype)
    IN  [h |-> z, c |-> z]

Sigmoid(v) == (v * v + 1) % Modulus

Bounded(v) == (2 * v + 1) % Modulus

\* sum over the channels of the concatenation of input and hidden, per [b, i, j]
Plane(x, h) ==
    LET cx == x.shape[4]
        ch == h.shape[4]
    IN  Flat([m \in 1..(h.shape[1] * h.shape[2] * h.shape[3]) |->
            SumSeq([k \in 1..cx |-> x.data[(m - 1) * cx + k]])
            + SumSeq([k \in 1..ch |-> h.data[(m - 1) * ch + k]])])

\* sum of the plane over the "same" padded window of the filter, per [b, i, j]
WindowSum(plane, H, W, fs) ==
    Flat([m \in 1..Len(plane) |->
        LET j == (m - 1) % W
            i == ((m - 1) \div W) % H
            b == (m - 1) \div (W * H)
        IN  SumSeq([w \in 1..(fs[1] * fs[2]) |->
                LET ii == i + ((w - 1) \div fs[2]) - ((fs[1] - 1) \div 2)
                    jj == j + ((w - 1) % fs[2]) - ((fs[2] - 1) \div 2)
                IN  IF ii >= 0 /\ ii < H /\ jj >= 0 /\ jj < W
                    THEN plane[(b * H + ii) * W + jj + 1] ELSE 0])])

\* pre-activation of gate g (0 input, 1 forget, 2 output, 3 candidate), channel f
Gate(p, s, g, f) == (((p.Matrix + g + f) % Modulus) * s + p.Bias + g) % Modulus

\* cell_next = cell_prev * forget_gate + input_gate * candidate
CellNext(cprev, p, s, f) ==
    (cprev * Sigmoid(Gate(p, s, 1, f))
     + Sigmoid(Gate(p, s, 0, f)) * Bounded(Gate(p, s, 3, f))) % Modulus

\* hidden_next = output_gate * bounded(cell_next)
HiddenNext(cnext, p, s, f) == (Sigmoid(Gate(p, s, 2, f)) * Bounded(cnext)) % Modulus

\* cell(inputs, state) -> (cell_output, new state); the output is the new hidden
CellCall(c, x, st, p) ==
    LET F == c.num_features
        shape == <<x.shape[1], c.shape[1], c.shape[2], F>>
        win == WindowSum(Plane(x, st.h), c.shape[1], c.shape[2], c.filter_size)
        newC == Flat([n \in 1..Prod(shape) |->
                    CellNext(st.c.data[n], p, win[((n - 1) \div F) + 1], (n - 1) % F)])
        newH == Flat([n \in 1..Prod(shape) |->
                    HiddenNext(newC[n], p, win[((n - 1) \div F) + 1], (n - 1) % F)])
        hT == Tensor(shape, x.dtype, newH)
    IN  [output |-> hT, state |-> [h |-> hT, c |-> Tensor(shape, x.dtype, newC)]]

(* ---- the caller's side: constructor arguments and the input tensor ---- *)
Pattern(seed, n) == (seed + n * n + (n \div 3)) % Modulus

Seeds == {0, 1}

\* static rank of the input: << >> when the shape is unknown (ndims is None)
Ranks == {<< >>, <<4>>, <<5>>, <<6>>}

\* values the scope's initializer may give a new parameter set
InitialValues == {[Matrix |-> 1, Bias |-> 0], [Matrix |-> 2, Bias |-> 1]}

default_name == "convlstm"

default_filter_size == <<3, 3>>

\* the rank-5 input [batch, steps, h, w, c] of a configuration
Inputs(c) ==
    LET shape == <<c.batch, c.in_steps, c.cell_shape[1], c.cell_shape[2], c.feature_map>>
    IN  Tensor(shape, c.dtype, [n \in 1..Prod(shape) |-> Pattern(c.seed, n)])

\* a state the caller supplies as initial_state
GivenState(c) ==
    LET shape == <<c.batch, c.cell_shape[1], c.cell_shape[2], c.feature_map>>
    IN  [h |-> Tensor(shape, c.dtype, [n \in 1..Prod(shape) |-> Pattern(c.seed + 1, n)]),
         c |-> Tensor(shape, c.dtype, [n \in 1..Prod(shape) |-> Pattern(c.seed + 2, 2 * n)])]

\* configurations that vary the shapes and the output policy
ShapeConfigs ==
    [name : {default_name}, ambient_reuse : {FALSE}, ndims : {<<5>>},
     batch : 1..MaxBatch, batch_static : {TRUE}, in_steps : 1..(MaxSteps + 1),
     cell_shape : (1..MaxSide) \X (1..MaxSide), feature_map : 1..MaxFeat,
     filter_size : {default_filter_size}, n_steps : 0..MaxSteps,
     initial_state : {NoneState}, return_last : BOOLEAN, return_seq_2d : BOOLEAN,
     dtype : {"float32"}, seed : {0}]

\* configurations that vary everything else on one shape
ControlConfigs ==
    [name : {default_name}, ambient_reuse : BOOLEAN, ndims : Ranks,
     batch : {MaxBatch}, batch_static : BOOLEAN, in_steps : 1..(MaxSteps + 1),
     cell_shape : {<<MaxSide, MaxSide>>}, feature_map : {MaxFeat},
     filter_size : {default_filter_size}, n_steps : 0..MaxSteps,
     initial_state : {NoneState}, return_last : BOOLEAN, return_seq_2d : BOOLEAN,
     dtype : DTypes, seed : Seeds]

Configs == ShapeConfigs \cup ControlConfigs

\* configurations of two constructions in one graph
Names == {default_name, "convlstm_2"}

RerunConfigs ==
    [name : Names, ambient_reuse : BOOLEAN, ndims : {<< >>, <<4>>, <<5>>},
     batch : {MaxBatch}, batch_static : {TRUE}, in_steps : {MaxSteps},
     cell_shape : {<<MaxSide, 1>>}, feature_map : {1},
     filter_size : {default_filter_size}, n_steps : 0..(MaxSteps + 1),
     initial_state : {NoneState}, return_last : BOOLEAN, return_seq_2d : BOOLEAN,
     dtype : {"float32"}, seed : {0}]

NoConfig ==
    [name |-> "", ambient_reuse |-> FALSE, ndims |-> << >>, batch |-> 0,
     batch_static |-> FALSE, in_steps |-> 0, cell_shape |-> <<0, 0>>, feature_map |-> 0,
     filter_size |-> <<0, 0>>, n_steps |-> 0, initial_state |-> NoneState,
     return_last |-> FALSE, return_seq_2d |-> FALSE, dtype |-> "none", seed |-> 0]

(* ---- deconvolution layers (layers/convolution/expert_deconv.py): tensors ---- *)
MaxWidth == 2
MaxChan == 2

Max(a, b) == IF a > b THEN a ELSE b

ChannelsLast(fmt) == fmt \in {"NWC", "NHWC", "NDHWC"}

\* the spatial entries of a shape, a strides tuple or a dilations list in a layout
SpatialOf(s, fmt) ==
    IF ChannelsLast(fmt) THEN SubSeq(s, 2, Len(s) - 1) ELSE SubSeq(s, 3, Len(s))

ChannelsOf(s, fmt) == IF ChannelsLast(fmt) THEN s[Len(s)] ELSE s[2]

Layout(batch, spatial, chan, fmt) ==
    IF ChannelsLast(fmt) THEN <<batch>> \o spatial \o <<chan>> ELSE <<batch, chan>> \o spatial

\* zero-based channel, spatial position and batch of the flat one-based index n
ChannelAt(n, s, fmt) ==
    IF ChannelsLast(fmt)
    THEN (n - 1) % s[Len(s)]
    ELSE ((n - 1) \div Prod(SpatialOf(s, fmt))) % s[2]

SpatialAt(n, s, fmt) ==
    IF ChannelsLast(fmt)
    THEN ((n - 1) \div s[Len(s)]) % Prod(SpatialOf(s, fmt))
    ELSE (n - 1) % Prod(SpatialOf(s, fmt))

BatchAt(n, s) == (n - 1) \div (Prod(s) \div s[1])

FlatAt(b, sp, ch, s, fmt) ==
    IF ChannelsLast(fmt)
    THEN (b * Prod(SpatialOf(s, fmt)) + sp) * s[Len(s)] + ch + 1
    ELSE (b * s[2] + ch) * Prod(SpatialOf(s, fmt)) + sp + 1

\* coordinate along axis a of the row-major position m in the extents d, and back
Coord(m, d, a) == (m \div Prod(SubSeq(d, a + 1, Len(d)))) % d[a]

RECURSIVE IndexTo(_, _, _)
IndexTo(c, d, a) == IF a = 0 THEN 0 ELSE IndexTo(c, d, a - 1) * d[a] + c[a]

\* tf.nn.conv{1,2,3}d_transpose: output position o receives input position i through
\* filter tap k when o + pad = i * stride + k * dilation on every spatial axis
conv_transpose(input, filters, output_shape, strides, padding, data_format, dilations) ==
    LET I == SpatialOf(input.shape, data_format)
        O == SpatialOf(output_shape, data_format)
        N == Len(I)
        K == SubSeq(filters.shape, 1, N)
        Cout == filters.shape[N + 1]
        Cin == filters.shape[N + 2]
        S == SpatialOf(strides, data_format)
        D == SpatialOf(dilations, data_format)
        pad == [a \in 1..N |->
                   IF padding = "SAME"
                   THEN Max((I[a] - 1) * S[a] + (K[a] - 1) * D[a] + 1 - O[a], 0) \div 2
                   ELSE 0]
        Term(b, osp, co, kf, ci) ==
            LET q == [a \in 1..N |-> Coord(osp, O, a) + pad[a] - Coord(kf, K, a) * D[a]]
            IN  IF \A a \in 1..N : q[a] >= 0 /\ q[a] % S[a] = 0 /\ q[a] \div S[a] < I[a]
                THEN input.data[FlatAt(b, IndexTo([a \in 1..N |-> q[a] \div S[a]], I, N),
                                       ci, input.shape, data_format)]
                     * filters.data[(kf * Cout + co) * Cin + ci + 1]
                ELSE 0
    IN  Tensor(output_shape, input.dtype,
               [n \in 1..Prod(output_shape) |->
                   SumSeq([m \in 1..(Prod(K) * Cin) |->
                       Term(BatchAt(n, output_shape), SpatialAt(n, output_shape, data_format),
                            ChannelAt(n, output_shape, data_format),
                            (m - 1) \div Cin, (m - 1) % Cin)]) % Modulus])

\* tf.nn.bias_add: the bias broadcast along the channel axis of the layout
bias_add(value, bias, data_format) ==
    Tensor(value.shape, value.dtype,
           [n \in 1..Prod(value.shape) |->
               (value.data[n] + bias.data[ChannelAt(n, value.shape, data_format) + 1])
                   % Modulus])

(* ---- deconvolution layers: the caller's side ---- *)
\* Python values an argument may hold: None, an initializer object, a function
None == [kind |-> "None", value |-> 0]

constant(v) == [kind |-> "constant", value |-> v]

truncated_normal == [kind |-> "truncated_normal", value |-> 0]

activation == [kind |-> "function", value |-> 0]

\* the truth value of None or of an object that defines neither __bool__ nor __len__
Truthy(v) == v # None

BInits == {None, constant(0), constant(1), truncated_normal}

Acts == {None, activation}

FormatsOf(dim) ==
    IF dim = 1 THEN {"NWC", "NCW"}
    ELSE IF dim = 2 THEN {"NHWC", "NCHW"}
    ELSE {"NDHWC", "NCDHW"}

default_deconv_name(dim) ==
    IF dim = 1 THEN "decnn1d_layer" ELSE IF dim = 2 THEN "decnn2d_layer" ELSE "decnn3d_layer"

\* spatial extent of the transposed convolution of an axis of extent i
OutExtent(i, k, s, padding) == IF padding = "SAME" THEN i * s ELSE (i - 1) * s + k

\* the arguments of a DeConv{dim}dLayer whose declared outputs_shape is the one the
\* primitive computes for an input of spatial extents 1, ..., 1, w
DeConvArgs(dim, w, k, s, padding, fmt, cout, cin, batch, act, b_init) ==
    LET I == [a \in 1..dim |-> IF a = dim THEN w ELSE 1]
    IN  [dim |-> dim, act |-> act,
         shape |-> [a \in 1..dim |-> k] \o <<cout, cin>>,
         outputs_shape |->
             Layout(batch, [a \in 1..dim |-> OutExtent(I[a], k, s, padding)], cout, fmt),
         strides |-> Layout(1, [a \in 1..dim |-> s], 1, fmt),
         padding |-> padding, data_format |-> fmt,
         dilation_rate |-> Layout(1, [a \in 1..dim |-> 1], 1, fmt),
         W_init |-> truncated_normal, b_init |-> b_init,
         name |-> default_deconv_name(dim)]

\* layers that vary the shapes and the layout
DeConvShapeConfigs ==
    UNION {{DeConvArgs(dim, w, k, s, padding, fmt, cout, 1, 1, None, b_init) :
               w \in 1..MaxWidth, k \in 1..2, s \in 1..2,
               padding \in {"SAME", "VALID"}, fmt \in FormatsOf(dim),
               cout \in 1..MaxChan, b_init \in {None, constant(1)}} : dim \in 1..3}

\* layers that vary the activation and the initializers on one shape
DeConvControlConfigs ==
    UNION {{DeConvArgs(dim, 2, 2, 2, "VALID", fmt, MaxChan, 2, 2, act, b_init) :
               fmt \in FormatsOf(dim), act \in Acts, b_init \in BInits} : dim \in 1..3}

DeConvConfigs == DeConvShapeConfigs \cup DeConvControlConfigs

NoLayer == DeConvArgs(1, 1, 1, 1, "", "", 0, 0, 0, None, None)

\* what an initializer returns for a shape; draw selects the sample of a random one
Initialize(init, shape, draw) ==
    Tensor(shape, "float32",
           [n \in 1..Prod(shape) |->
               IF init.kind = "constant" THEN init.value % Modulus ELSE Pattern(draw, n)])

\* an input the layer accepts: the spatial extents its outputs_shape is computed from
DeConvInputs(l, seed) ==
    LET O == SpatialOf(l.outputs_shape, l.data_format)
        S == SpatialOf(l.strides, l.data_format)
        I == [a \in 1..l.dim |->
                 IF l.padding = "SAME" THEN O[a] \div S[a]
                 ELSE ((O[a] - l.shape[a]) \div S[a]) + 1]
        shape == Layout(l.outputs_shape[1], I, l.shape[l.dim + 2], l.data_format)
    IN  Tensor(shape, "float32", [n \in 1..Prod(shape) |-> Pattern(seed, n)])

(* ---- state ---- *)
VARIABLES
    pc,             \* "idle", "loop" (inside the variable scope), "done", "failed"
    err,            \* the exception that ended a failed construction
    cfg,            \* the constructor's arguments
    varstore,       \* the graph's variables: scope name -> parameter set
    reuse,          \* reuse flag of the current variable scope
    time_step,      \* loop variable
    state,          \* the threaded state
    outputs,        \* the list of per-step outputs
    batch_size,     \* self.batch_size
    cell,           \* self.cell
    initial_state,  \* self.initial_state
    layer_outputs,  \* self._temp_data['outputs']
    final_state,    \* self.final_state
    calls,          \* history: the completed cell invocations of this construction
    prev,           \* history: the previous construction in the same graph
    dpc,            \* the deconvolution layer: "none", "new", "built", "called", "failed"
    layer,          \* the attributes __init__ sets on the deconvolution layer
    weights,        \* its parameters by name; self.W is "filters", self.b is "biases"
    trace           \* history: the last forward call, its operations in order

lstm_vars == <<pc, err, cfg, varstore, reuse, time_step, state, outputs, batch_size, cell,
               initial_state, layer_outputs, final_state, calls, prev>>

deconv_vars == <<dpc, layer, weights, trace>>

vars == <<lstm_vars, deconv_vars>>

NoTrace == [inputs |-> NoTensor, ops |-> << >>, outputs |-> NoTensor]

\* no deconvolution layer
NoDeConv ==
    /\ dpc = "none"
    /\ layer = NoLayer
    /\ weights = << >>
    /\ trace = NoTrace

NoBatch == [static |-> FALSE, value |-> 0]

NoPrev ==
    [status |-> "none", cfg |-> NoConfig, params |-> << >>, initial_state |-> NoneState,
     layer_outputs |-> NoTensor, final_state |-> NoneState]

EmptyStore == << >>

Put(store, name, p) == (name :> p) @@ store

Fresh ==
    /\ pc = "idle"
    /\ err = ""
    /\ cfg = NoConfig
    /\ reuse = FALSE
    /\ time_step = 0
    /\ state = NoneState
    /\ outputs = << >>
    /\ batch_size = NoBatch
    /\ cell = NoCell
    /\ initial_state = NoneState
    /\ layer_outputs = NoTensor
    /\ final_state = NoneState
    /\ calls = << >>

\* a new graph: no variable, no layer
Init ==
    /\ Fresh
    /\ prev = NoPrev
    /\ varstore = EmptyStore
    /\ NoDeConv

Fail(e) ==
    /\ pc' = "failed"
    /\ err' = e

(* ---- __init__, up to the entry of the variable scope ---- *)
\* logging.info formats get_shape().ndims with %d
LoggingFails(c) == c.ndims = << >>

\* faulty variant: only ranks below 5 are rejected
RankFailsBelow(c) == c.ndims[1] < 5

\* get_shape().with_rank(5)
RankFails(c) == c.ndims # <<5>>

BatchSizeOf(c) == [static |-> c.batch_static, value |-> c.batch]

InitOutputs(old) == << >>

\* faulty variant: the supplied state is ignored
InitialStateZero(c, newcell) == zero_state(newcell, c.batch, c.dtype)

\* faulty variant: without a supplied state the previous final state is carried on
InitialStateCarried(c, newcell) ==
    IF c.initial_state # NoneState THEN c.initial_state
    ELSE IF prev.status = "done" THEN prev.final_state
    ELSE zero_state(newcell, c.batch, c.dtype)

InitialStateOf(c, newcell) ==
    IF c.initial_state = NoneState
    THEN zero_state(newcell, c.batch, c.dtype)
    ELSE c.initial_state

ConstructLoggingFails(c) ==
    /\ pc = "idle"
    /\ LoggingFails(c)
    /\ cfg' = c
    /\ Fail("TypeError")
    /\ UNCHANGED <<varstore, reuse, time_step, state, outputs, batch_size, cell,
                   initial_state, layer_outputs, final_state, calls, prev>>

ConstructRankFails(c) ==
    /\ pc = "idle"
    /\ ~LoggingFails(c)
    /\ RankFails(c)
    /\ cfg' = c
    /\ Fail("RankError")
    /\ UNCHANGED <<varstore, reuse, time_step, state, outputs, batch_size, cell,
                   initial_state, layer_outputs, final_state, calls, prev>>

ConstructEnterScope(c) ==
    /\ pc = "idle"
    /\ ~LoggingFails(c)
    /\ ~RankFails(c)
    /\ cfg' = c
    /\ batch_size' = BatchSizeOf(c)
    /\ outputs' = InitOutputs(outputs)
    /\ cell' = cell_fn(c.cell_shape, c.filter_size, c.feature_map)
    /\ initial_state' = InitialStateOf(c, cell')
    /\ state' = initial_state'
    /\ reuse' = c.ambient_reuse
    /\ time_step' = 0
    /\ pc' = "loop"
    /\ UNCHANGED <<err, varstore, layer_outputs, final_state, calls, prev>>

(* ---- the loop over the time steps ---- *)
\* faulty variant: reuse is never switched on
ReuseNever(t, flag) == flag

\* if time_step > 0: tf.get_variable_scope().reuse_variables()
ReuseAt(t, flag) == IF t > 0 THEN TRUE ELSE flag

\* faulty variant: the slice is taken one step ahead
SliceIndexNext(t) == t + 1

SliceIndex(t) == t

\* strided slice of a statically shaped input: the index must be within the axis
SliceFails(c, t) == SliceIndex(t) >= c.in_steps

\* get_variable under the scope's reuse flag
VariableFails(store, name, flag) ==
    \/ flag /\ name \notin DOMAIN store
    \/ ~flag /\ name \in DOMAIN store

InLoop == pc = "loop" /\ time_step < cfg.n_steps

StepSliceFails ==
    /\ InLoop
    /\ SliceFails(cfg, time_step)
    /\ reuse' = ReuseAt(time_step, reuse)
    /\ Fail("ValueError: slice index out of bounds")
    /\ UNCHANGED <<cfg, varstore, time_step, state, outputs, batch_size, cell,
                   initial_state, layer_outputs, final_state, calls, prev>>
    /\ UNCHANGED deconv_vars

StepVariableFails ==
    /\ InLoop
    /\ ~SliceFails(cfg, time_step)
    /\ VariableFails(varstore, cfg.name, ReuseAt(time_step, reuse))
    /\ reuse' = ReuseAt(time_step, reuse)
    /\ Fail("ValueError: variable scope")
    /\ UNCHANGED <<cfg, varstore, time_step, state, outputs, batch_size, cell,
                   initial_state, layer_outputs, final_state, calls, prev>>
    /\ UNCHANGED deconv_vars

\* the parameter set get_variable returns: the existing one under reuse, else a new
\* one with the values the scope's initializer draws
GetVariable(store, name, flag) == IF flag THEN {store[name]} ELSE InitialValues

StepCell ==
    /\ InLoop
    /\ ~SliceFails(cfg, time_step)
    /\ ~VariableFails(varstore, cfg.name, ReuseAt(time_step, reuse))
    /\ \E p \in GetVariable(varstore, cfg.name, ReuseAt(time_step, reuse)) :
           LET flag == ReuseAt(time_step, reuse)
               r == CellCall(cell, StepSlice(Inputs(cfg), SliceIndex(time_step)), state, p)
           IN  /\ reuse' = flag
               /\ varstore' = Put(varstore, cfg.name, p)
               /\ state' = r.state
               /\ outputs' = Append(outputs, r.output)
               /\ calls' = Append(calls,
                      [time_step |-> time_step, slice |-> SliceIndex(time_step),
                       reuse |-> flag, created |-> ~flag, params |-> p,
                       state |-> state, output |-> r.output, next |-> r.state])
    /\ time_step' = time_step + 1
    /\ UNCHANGED <<pc, err, cfg, batch_size, cell, initial_state, layer_outputs,
                   final_state, prev>>
    /\ UNCHANGED deconv_vars

(* ---- after the loop: the output policy and final_state ---- *)
\* faulty variant: the first output instead of the last
FirstOf(outs) == outs[1]

LastOf(outs) == outs[Len(outs)]

\* faulty variant: concatenation along axis 0 instead of axis 1
ConcatBatch(outs) ==
    LET s == outs[1].shape
        size == Prod(s)
    IN  Tensor(<<Len(outs) * s[1], s[2], s[3], s[4]>>, outs[1].dtype,
               [n \in 1..(Len(outs) * size) |->
                   outs[((n - 1) \div size) + 1].data[((n - 1) % size) + 1]])

Concat(outs) == ConcatAxis1(outs)

\* faulty variant: the 2-D mode keeps one row per batch element
ShapedPerExample(c, outs) ==
    IF c.return_last
    THEN LastOf(outs)
    ELSE IF c.return_seq_2d
         THEN Reshape(Concat(outs),
                      <<c.n_steps * c.cell_shape[1] * c.cell_shape[2] * c.feature_map>>)
         ELSE Reshape(Concat(outs),
                      <<c.n_steps, c.cell_shape[1], c.cell_shape[2], c.feature_map>>)

Shaped(c, outs) ==
    IF c.return_last
    THEN LastOf(outs)
    ELSE IF c.return_seq_2d
         THEN Reshape(Concat(outs), <<c.cell_shape[1] * c.cell_shape[2] * c.feature_map>>)
         ELSE Reshape(Concat(outs),
                      <<c.n_steps, c.cell_shape[1], c.cell_shape[2], c.feature_map>>)

\* faulty variant: final_state is the initial state
FinalStateInitial(st, init) == init

FinalStateOf(st, init) == st

LoopOver == pc = "loop" /\ time_step >= cfg.n_steps

\* outputs[-1] or tf.concat of an empty list
FinishEmptyFails ==
    /\ LoopOver
    /\ outputs = << >>
    /\ Fail("IndexError or ValueError: no outputs")
    /\ UNCHANGED <<cfg, varstore, reuse, time_step, state, outputs, batch_size, cell,
                   initial_state, layer_outputs, final_state, calls, prev>>
    /\ UNCHANGED deconv_vars

Finish ==
    /\ LoopOver
    /\ outputs # << >>
    /\ layer_outputs' = Shaped(cfg, outputs)
    /\ final_state' = FinalStateOf(state, initial_state)
    /\ pc' = "done"
    /\ UNCHANGED <<err, cfg, varstore, reuse, time_step, state, outputs, batch_size, cell,
                   initial_state, calls, prev>>
    /\ UNCHANGED deconv_vars

Construct(c) ==
    \/ ConstructLoggingFails(c)
    \/ ConstructRankFails(c)
    \/ ConstructEnterScope(c)

\* what the caller may pass as initial_state: nothing, a state of its own, or the
\* final_state of the previous construction
StateArgs(c) ==
    {NoneState, GivenState(c)}
    \cup (IF prev.status = "done" THEN {prev.final_state} ELSE {})

New(S) ==
    /\ pc = "idle"
    /\ \E c \in S : \E st \in StateArgs(c) : Construct([c EXCEPT !.initial_state = st])
    /\ UNCHANGED deconv_vars

Unroll ==
    \/ StepSliceFails
    \/ StepVariableFails
    \/ StepCell
    \/ FinishEmptyFails
    \/ Finish

Next ==
    \/ New(Configs)
    \/ Unroll

Spec == Init /\ [][Next]_vars

(* ---- a second layer constructed in the same graph ---- *)
Summary ==
    IF pc = "done"
    THEN [status |-> "done", cfg |-> cfg, params |-> <<varstore[cfg.name]>>,
          initial_state |-> initial_state, layer_outputs |-> layer_outputs,
          final_state |-> final_state]
    ELSE [NoPrev EXCEPT !.status = "failed"]

Again ==
    /\ pc \in {"done", "failed"}
    /\ prev = NoPrev
    /\ prev' = Summary
    /\ pc' = "idle"
    /\ err' = ""
    /\ cfg' = NoConfig
    /\ reuse' = FALSE
    /\ time_step' = 0
    /\ state' = NoneState
    /\ batch_size' = NoBatch
    /\ cell' = NoCell
    /\ initial_state' = NoneState
    /\ layer_outputs' = NoTensor
    /\ final_state' = NoneState
    /\ outputs' = << >>
    /\ calls' = << >>
    /\ UNCHANGED varstore
    /\ UNCHANGED deconv_vars

NextRerun ==
    \/ New(RerunConfigs)
    \/ Unroll
    \/ Again

SpecRerun == Init /\ [][NextRerun]_vars

(* ---- DeConv1dLayer, DeConv2dLayer, DeConv3dLayer: __init__, build, forward ---- *)
\* __init__ stores its arguments as attributes
DeConvInit(c) ==
    /\ layer' = c
    /\ dpc' = "new"
    /\ UNCHANGED <<weights, trace>>
    /\ UNCHANGED lstm_vars

DeConvNew ==
    /\ dpc = "none"
    /\ \E c \in DeConvConfigs : DeConvInit(c)

\* self._get_weights(var_name, shape, init): a new parameter of the layer
get_weights(store, var_name, shape, init, draw) ==
    Put(store, var_name, Initialize(init, shape, draw))

\* shape=(self.shape[-2]): a vector of the filter's output-channel count
BiasShape(shape) == <<shape[Len(shape) - 1]>>

\* if self.b_init: in build
BuildsBias(l) == Truthy(l.b_init)

DeConvBuild ==
    /\ dpc = "new"
    /\ \E draw \in Seeds :
           LET W == get_weights(weights, "filters", layer.shape, layer.W_init, draw)
           IN  weights' = IF BuildsBias(layer)
                          THEN get_weights(W, "biases", BiasShape(layer.shape),
                                           layer.b_init, draw + 1)
                          ELSE W
    /\ dpc' = "built"
    /\ UNCHANGED <<layer, trace>>
    /\ UNCHANGED lstm_vars

\* faulty variant: forward adds the bias whatever b_init is
AddsBiasAlways(l) == TRUE

\* if self.b_init: in forward
AddsBias(l) == Truthy(l.b_init)

\* if self.act: in forward
Activates(l) == Truthy(l.act)

\* self.act(outputs), elementwise
Activation(x) ==
    Tensor(x.shape, x.dtype, [n \in 1..Prod(x.shape) |-> (x.data[n] * x.data[n]) % Modulus])

Op(name, out) == [op |-> name, out |-> out]

\* forward; reading self.b when build did not set it raises AttributeError
DeConvForward ==
    /\ dpc \in {"built", "called"}
    /\ \E seed \in Seeds :
           LET x == DeConvInputs(layer, seed)
               conv == conv_transpose(x, weights["filters"], layer.outputs_shape,
                                      layer.strides, layer.padding, layer.data_format,
                                      layer.dilation_rate)
               ops1 == <<Op("conv_transpose", conv)>>
           IN  IF AddsBias(layer) /\ "biases" \notin DOMAIN weights
               THEN /\ dpc' = "failed"
                    /\ trace' = [inputs |-> x, ops |-> ops1, outputs |-> NoTensor]
               ELSE LET biased == IF AddsBias(layer)
                                  THEN bias_add(conv, weights["biases"], layer.data_format)
                                  ELSE conv
                        ops2 == IF AddsBias(layer)
                                THEN Append(ops1, Op("bias_add", biased)) ELSE ops1
                        acted == IF Activates(layer) THEN Activation(biased) ELSE biased
                        ops3 == IF Activates(layer)
                                THEN Append(ops2, Op("act", acted)) ELSE ops2
                    IN  /\ dpc' = "called"
                        /\ trace' = [inputs |-> x, ops |-> ops3, outputs |-> acted]
    /\ UNCHANGED <<layer, weights>>
    /\ UNCHANGED lstm_vars

NextDeConv ==
    \/ DeConvNew
    \/ DeConvBuild
    \/ DeConvForward

SpecDeConv == Init /\ [][NextDeConv]_vars

(* ---- properties ---- *)
Started == pc # "idle"

Done == pc = "done"

Params == varstore[cfg.name]

\* the cell applied by hand k times from state st over the input slices 0..k-1
RECURSIVE Manual(_, _, _, _)
Manual(c, p, st, k) ==
    IF k = 0
    THEN [output |-> NoTensor, state |-> st]
    ELSE CellCall(cell_fn(c.cell_shape, c.filter_size, c.feature_map),
                  StepSlice(Inputs(c), k - 1), Manual(c, p, st, k - 1).state, p)

StepShape(c) == <<c.batch, c.cell_shape[1], c.cell_shape[2], c.feature_map>>

\* C1: a rank-5 input whose step axis differs from n_steps makes the construction fail
\* with no cell invocation and no parameter created.
C1_StepMismatchFailsFast ==
    (Started /\ cfg.ndims = <<5>> /\ cfg.in_steps # cfg.n_steps)
        => (~Done /\ calls = << >> /\ varstore = EmptyStore)

\* C2: an input whose rank is not 5 fails before the cell is constructed, before any
\* cell step and before any parameter is created; a rank-5 input passes the rank check.
C2_RankChecked ==
    Started =>
        IF cfg.ndims # <<5>>
        THEN pc = "failed" /\ cell = NoCell /\ calls = << >> /\ varstore = EmptyStore
        ELSE err \notin {"TypeError", "RankError"} /\ cell # NoCell

C2_Witness == pc = "failed" /\ err = "RankError" /\ cfg.ndims = <<6>>

C6_FinalState ==
    Done =>
        /\ Len(calls) = cfg.n_steps
        /\ final_state = calls[cfg.n_steps].next
        /\ final_state = Manual(cfg, Params, initial_state, cfg.n_steps).state
        /\ (prev.status = "done" /\ cfg.initial_state = prev.final_state)
               => final_state = Manual(cfg, Params, prev.final_state, cfg.n_steps).state

C6_Witness ==
    /\ Done /\ prev.status = "done" /\ cfg.initial_state = prev.final_state
    /\ cfg.n_steps = MaxSteps
    /\ final_state # initial_state

\* C7: the cell is invoked at time indices 0, 1, ... in order, invocation t on input
\* slice t and on the state returned by invocation t-1 (the initial state for t = 0),
\* the output list holds one output per invocation in that order, and the construction
\* completes only after n_steps invocations.
C7_InOrder ==
    /\ Len(calls) = time_step
    /\ Len(outputs) = Len(calls)
    /\ \A k \in 1..Len(calls) :
          /\ calls[k].time_step = k - 1
          /\ calls[k].slice = k - 1
          /\ calls[k].state = IF k = 1 THEN initial_state ELSE calls[k - 1].next
          /\ outputs[k] = calls[k].output
    /\ calls # << >> => state = calls[Len(calls)].next
    /\ Done => Len(calls) = cfg.n_steps

C7_Witness == Done /\ Len(calls) = MaxSteps /\ calls[MaxSteps].state # initial_state

\* C8 as claimed: reuse is off at step 0 and on at every later step, parameters are
\* created at step 0 only, and the parameter set of step 0 serves every later step.
C8_ReuseOffAtFirstStep ==
    \A k \in 1..Len(calls) :
        /\ calls[k].reuse = (k > 1)
        /\ calls[k].created = (k = 1)
        /\ calls[k].params = calls[1].params

\* C8 as amended: at step 0 reuse is the flag of the enclosing scope, and parameters are
\* created at step 0 exactly when it is off; at every later step reuse is on, nothing is
\* created, the variable lookup succeeds and the parameter set is that of step 0.
C8_ReuseAfterFirstStep ==
    /\ \A k \in 1..Len(calls) :
          /\ calls[k].reuse = (k > 1 \/ cfg.ambient_reuse)
          /\ calls[k].created = (k = 1 /\ ~cfg.ambient_reuse)
          /\ calls[k].params = calls[1].params
    /\ (pc = "failed" /\ err = "ValueError: variable scope") => time_step = 0
    /\ calls # << >> => Params = calls[1].params

C8_Witness ==
    /\ Done /\ Len(calls) = MaxSteps /\ calls[1].created /\ calls[MaxSteps].reuse

\* C9: two constructions with the same input, the same initial_state argument, the same
\* configuration and the same parameter values have the same outputs and final_state.
SameArguments ==
    /\ Inputs(cfg) = Inputs(prev.cfg)
    /\ cfg.initial_state = prev.cfg.initial_state
    /\ cfg.n_steps = prev.cfg.n_steps
    /\ cfg.cell_shape = prev.cfg.cell_shape
    /\ cfg.feature_map = prev.cfg.feature_map
    /\ cfg.filter_size = prev.cfg.filter_size
    /\ cfg.return_last = prev.cfg.return_last
    /\ cfg.return_seq_2d = prev.cfg.return_seq_2d

C9_Deterministic ==
    (Done /\ prev.status = "done" /\ SameArguments /\ <<Params>> = prev.params) =>
        /\ layer_outputs = prev.layer_outputs
        /\ final_state = prev.final_state
        /\ initial_state = prev.initial_state

C9_Witness ==
    /\ Done /\ prev.status = "done" /\ SameArguments /\ <<Params>> = prev.params
    /\ cfg.n_steps = MaxSteps /\ cfg.initial_state = NoneState
    /\ final_state # initial_state

\* C10: the first step receives the caller's initial_state when one is supplied, else
\* the zero state of the input's batch size and dtype; self.initial_state is that value.
ExpectedInitialState ==
    IF cfg.initial_state # NoneState
    THEN cfg.initial_state
    ELSE LET z == [shape |-> StepShape(cfg), dtype |-> cfg.dtype,
                   data |-> [n \in 1..Prod(StepShape(cfg)) |-> 0]]
         IN  [h |-> z, c |-> z]

C10_InitialState ==
    /\ pc \in {"loop", "done"} => initial_state = ExpectedInitialState
    /\ calls # << >> => calls[1].state = ExpectedInitialState /\ calls[1].state = initial_state

C10_Witness ==
    /\ Done /\ cfg.initial_state # NoneState /\ cfg.dtype = "float64"
    /\ calls[1].state = cfg.initial_state

HasBias == "biases" \in DOMAIN weights

OpNames == [i \in 1..Len(trace.ops) |-> trace.ops[i].op] \o << >>

\* zero-based channel of the flat one-based position n of the layer's output
OutputChannel(n) ==
    LET C == layer.shape[layer.dim + 1]
    IN  IF layer.data_format \in {"NWC", "NHWC", "NDHWC"}
        THEN (n - 1) % C
        ELSE ((n - 1) \div (Prod(layer.outputs_shape) \div (layer.outputs_shape[1] * C))) % C

\* C11: for each deconvolution layer, build creates the parameter "biases", a vector of
\* shape[-2] elements, exactly when b_init is not None, and every forward after build
\* applies the transposed convolution, then the bias addition exactly when build created
\* the bias, then the activation when there is one; forward never reads a bias that was
\* not created and never skips one that was.
C11_BiasIffInitializer ==
    /\ dpc # "failed"
    /\ dpc \in {"built", "called"} =>
          /\ "filters" \in DOMAIN weights
          /\ HasBias <=> (layer.b_init # None)
          /\ HasBias => weights["biases"].shape = <<layer.shape[layer.dim + 1]>>
    /\ dpc = "called" =>
          /\ OpNames = <<"conv_transpose">>
                       \o (IF HasBias THEN <<"bias_add">> ELSE << >>)
                       \o (IF layer.act # None THEN <<"act">> ELSE << >>)
          /\ trace.outputs = trace.ops[Len(trace.ops)].out
          /\ HasBias =>
                \A n \in 1..Prod(layer.outputs_shape) :
                    trace.ops[2].out.data[n]
                        = (trace.ops[1].out.data[n]
                           + weights["biases"].data[OutputChannel(n) + 1]) % Modulus

C11_Witness ==
    /\ dpc = "called" /\ layer.dim = 3 /\ layer.b_init = constant(1) /\ layer.act # None
    /\ HasBias /\ Len(trace.ops) = 3
    /\ trace.ops[2].out # trace.ops[1].out
    /\ trace.outputs # trace.ops[2].out

====
